---- MODULE Spec2Model ----
(***************************************************************************)
(* Winch motor controller (RP2040): the slew-rate revision                 *)
(* (src/unnamed/part_000).                                                 *)
(*                                                                         *)
(* Units.  Time is in milliseconds.  A speed passed as an argument is an   *)
(* integer number of milli-percent (100% = 100000) and stands for the      *)
(* float nearest to it (Percent); a speed the program computes             *)
(* (g_slew.current, ramp_to's p) is kept as the float the program holds.   *)
(* A rate is in %/s.  A distance is an integer number of tenths of a       *)
(* millimetre (1 m = 10000).                                               *)
(*                                                                         *)
(* Time.  The code only ever uses differences of clock readings            *)
(* (absolute_time_diff_us), so the model keeps, for every stored           *)
(* timestamp, its age: the time elapsed since it was taken.  A timestamp   *)
(* that holds no value is NoTime.  Ages saturate (AgeSat).  The clock       *)
(* advances by Tick (at most one tick of TickMs between two consecutive    *)
(* statements of the main line: the loops are tight loops) and by the      *)
(* sleep_ms calls of the code.                                             *)
(*                                                                         *)
(* Concurrency.  The main line is one sequential process (pc); the         *)
(* feedback edge interrupt (FgEdge) interleaves with it at every           *)
(* statement that reads or writes g_fg_pulses or the interrupt mask.       *)
(***************************************************************************)
EXTENDS Integers, FiniteSets, Sequences, TLC

\* ----------------------------------------------------------------- bounds
TickMs == 50
MaxPulses == 5
MaxCalls == 7
BurstPulses == 107

\* ------------------------------------------------------ program constants
PWM_WRAP == 6249
DefaultRate == 200
MinRate == 1
BrakeRate == 400
BrakeSettleMs == 300
HoldSettleMs == 200
MoveRate == 200
NudgeRate == 400
HoldSleepMs == 10
PauseMs == 5000
ApiTimeoutMs == 60000
UnwindDefaultSpeed == 40000
WindDefaultSpeed == 60000

NoTime == 0 - 1

Min(a, b) == IF a < b THEN a ELSE b
Abs(a) == IF a < 0 THEN 0 - a ELSE a

\* ----------------------------------------------- single-precision floats
\* The program computes in float.  A float is [m, e]: the value m * 2^e
\* with 2^23 <= |m| < 2^24, or m = 0.  Every operation rounds to nearest,
\* ties to even, as the hardware and the soft-float library do.  Division,
\* multiplication and the conversions take non-negative operands.
GEAR_RATIO == 14
FG_PULSES_PER_MOTOR_REV == 6
DrumDiameterMm == 50
\* (float)M_PI = PiMantissa * 2^-PiFractionBits
PiMantissa == 13176795
PiFractionBits == 22

F32Zero == [m |-> 0, e |-> 0]

\* In the operators below, CHOOSE v \in { e(x) : x \in {a} } : TRUE is e(a)
\* with the operand a evaluated once.

\* the number of bits of n, 0 <= n < 2^31
BitLen(n) ==
    CHOOSE v \in
      { LET Low(j) == CHOOSE b \in 0..8 : j < 2^b /\ (b = 0 \/ 2^(b - 1) <= j)
        IN  IF k >= 2^24 THEN 24 + Low(k \div 2^24)
            ELSE IF k >= 2^16 THEN 16 + Low(k \div 2^16)
            ELSE IF k >= 2^8 THEN 8 + Low(k \div 2^8)
            ELSE Low(k)
        : k \in { n } } : TRUE

\* q + r / d with 2^23 <= q < 2^24 and 0 <= r < d, rounded to nearest, ties
\* to even
F32Round(q, r, d, e) ==
    IF 2 * r > d \/ (2 * r = d /\ q % 2 = 1)
    THEN IF q + 1 = 2^24 THEN [m |-> 2^23, e |-> e + 1] ELSE [m |-> q + 1, e |-> e]
    ELSE [m |-> q, e |-> e]

\* the float nearest to n * 2^e, 0 <= n < 2^31
F32OfInt(n, e) ==
    CHOOSE v \in
      { IF k = 0 THEN F32Zero
        ELSE CHOOSE w \in
               { IF b <= 24 THEN [m |-> k * 2^(24 - b), e |-> e - (24 - b)]
                 ELSE F32Round(k \div 2^(b - 24), k % 2^(b - 24), 2^(b - 24), e + (b - 24))
                 : b \in { BitLen(k) } } : TRUE
        : k \in { n } } : TRUE

\* k <= 7 further bits of a long division by d < 2^24
F32DivStage(x, d, k) ==
    CHOOSE v \in
      { [q |-> y.q * 2^k + (y.r * 2^k) \div d, r |-> (y.r * 2^k) % d]
        : y \in { x } } : TRUE

\* n1 = n * 2^s is at least d: the quotient is extended to 24 bits, at most
\* 7 bits at a time, and rounded; s + k bits in all were shifted in
F32DivScaled(n1, d, s) ==
    CHOOSE v \in
      { CHOOSE w \in
          { F32Round(y.q, y.r, d, 0 - (s + k))
            : y \in { F32DivStage(F32DivStage(F32DivStage(F32DivStage(
                        [q |-> n1 \div d, r |-> n1 % d],
                        d, Min(k, 7)),
                        d, Min(IF k > 7 THEN k - 7 ELSE 0, 7)),
                        d, Min(IF k > 14 THEN k - 14 ELSE 0, 7)),
                        d, IF k > 21 THEN k - 21 ELSE 0) } } : TRUE
        : k \in { 24 - BitLen(n1 \div d) } } : TRUE

\* the float nearest to n / d, for 0 <= n < 2^24 and 0 < d < 2^24: the
\* dividend is scaled until the quotient is at least 1
F32OfRatio(n, d) ==
    CHOOSE v \in
      { LET s == IF n * 2^s0 >= d THEN s0 ELSE s0 + 1
        IN  IF n = 0 THEN F32Zero ELSE F32DivScaled(n * 2^s, d, s)
        : s0 \in { IF n >= d \/ n = 0 THEN 0 ELSE BitLen(d) - BitLen(n) } } : TRUE

\* a / b
F32Div(a, b) ==
    CHOOSE v \in
      { IF x.m = 0 THEN F32Zero
        ELSE CHOOSE w \in { [m |-> q.m, e |-> q.e + x.e - y.e]
                            : q \in { F32OfRatio(x.m, y.m) } } : TRUE
        : x \in { a }, y \in { b } } : TRUE

\* a * b: the 48-bit product hi * 2^24 + lo of the mantissas, from the
\* partial products of their 12-bit limbs
F32Mul(a, b) ==
    CHOOSE v \in
      { LET a1 == x.m \div 4096
            a0 == x.m % 4096
            b1 == y.m \div 4096
            b0 == y.m % 4096
            mid == a1 * b0 + a0 * b1
            losum == (mid % 4096) * 4096 + a0 * b0
            hi == a1 * b1 + mid \div 4096 + losum \div 2^24
            lo == losum % 2^24
            e == x.e + y.e + 24
        IN  IF x.m = 0 \/ y.m = 0 THEN F32Zero
            ELSE IF hi >= 2^23 THEN F32Round(hi, lo, 2^24, e)
            ELSE F32Round(2 * hi + lo \div 2^23, lo % 2^23, 2^23, e - 1)
        : x \in { a }, y \in { b } } : TRUE

\* a <= b
F32Leq(a, b) ==
    CHOOSE v \in
      { LET MagLeq(x, y) ==
                x.m = 0 \/ (y.m # 0 /\ (x.e < y.e \/ (x.e = y.e /\ Abs(x.m) <= Abs(y.m))))
        IN  IF p.m < 0 THEN q.m >= 0 \/ MagLeq(q, p)
            ELSE q.m >= 0 /\ MagLeq(p, q)
        : p \in { a }, q \in { b } } : TRUE

\* -a
F32Neg(a) ==
    CHOOSE v \in { [m |-> 0 - x.m, e |-> x.e] : x \in { a } } : TRUE

\* a + b: the operand y of the smaller magnitude is aligned to the other, x,
\* with three further bits, the last of them sticky, and added to or
\* subtracted from it
F32Add(a, b) ==
    CHOOSE v \in
      { LET pbig == q.m = 0 \/ (p.m # 0 /\ (q.e < p.e \/ (q.e = p.e /\ Abs(q.m) <= Abs(p.m))))
            x == IF pbig THEN p ELSE q
            y == IF pbig THEN q ELSE p
            d == x.e - y.e
            t == (Abs(y.m) * 8) \div 2^d
            B == IF y.m = 0 THEN 0
                 ELSE IF d >= 27 THEN 1
                 ELSE IF (Abs(y.m) * 8) % 2^d # 0 /\ t % 2 = 0 THEN t + 1
                 ELSE t
            r == F32OfInt(IF (x.m < 0) = (y.m < 0) THEN Abs(x.m) * 8 + B
                          ELSE Abs(x.m) * 8 - B, x.e - 3)
        IN  IF x.m < 0 THEN F32Neg(r) ELSE r
        : p \in { a }, q \in { b } } : TRUE

\* (uint32_t) a, (uint) a
F32ToUint(a) ==
    CHOOSE v \in
      { IF x.e >= 0 THEN x.m * 2^x.e
        ELSE IF 0 - x.e >= 24 THEN 0
        ELSE x.m \div 2^(0 - x.e)
        : x \in { a } } : TRUE

\* a >= 0 in thousandths, rounded to the nearest: the view of a speed in
\* milli-percent (a < 2^11)
MilliPercent(a) ==
    CHOOSE v \in
      { LET s == 0 - x.e
            ip == IF s >= 24 THEN 0 ELSE x.m \div 2^s
            fr == IF s >= 24 THEN x.m ELSE x.m % 2^s
            T == (fr \div 1024) * 1000 + ((fr % 1024) * 1000) \div 1024
        IN  IF x.m = 0 \/ s > 40 THEN 0
            ELSE IF s <= 10 THEN ip * 1000 + (2 * fr * 1000 + 2^s) \div 2^(s + 1)
            ELSE ip * 1000 + (T + 2^(s - 11)) \div 2^(s - 10)
        : x \in { a } } : TRUE

VARIABLES
    pc,           \* position of the main line
    ticked,       \* the clock advanced since the last main-line statement
    g_fg_pulses,  \* volatile pulse counter
    irq_en,       \* FG rising-edge interrupt enabled
    irq_pend,     \* an edge event latched while the interrupt was disabled
    g_slew,       \* [current, target, rate, initialized]
    pwm_level,    \* last level written by pwm_set_chan_level
    dir_pin,      \* last value written to DIR_PIN
    age,          \* ages of the stored timestamps
    mv,           \* move_meters: arguments and locals
    hd,           \* hold_payload_ms: arguments and locals
    bk,           \* brake_to_stop: argument and return position
    rs,           \* counter reset sequence: return position
    ret,          \* value returned by the last operation
    path,         \* which return path the current move took
    hs,           \* test-driver bookkeeping for the Speed Commander
    ramp,         \* blocking-ramp revision: ramp_to's static current and loop
    bm            \* blocking-ramp revision: move_meters arguments and locals

vars == << pc, ticked, g_fg_pulses, irq_en, irq_pend, g_slew, pwm_level,
           dir_pin, age, mv, hd, bk, rs, ret, path, hs, ramp, bm >>

\* ---------------------------------------------------------------- set_speed
\* the floats nearest to 0.000 .. 100.000, each computed once and kept as a
\* tuple: entry i belongs to (i - 1) milli-percent
Percents == [i \in 1..100001 |-> F32OfRatio(i - 1, 1000)] \o << >>

\* the float of a speed given in milli-percent
Percent(p) ==
    IF p < 0 THEN F32Neg(F32OfRatio(0 - p, 1000))
    ELSE IF p > 100000 THEN F32OfRatio(p, 1000)
    ELSE Percents[p + 1]

\* percent: 0..100 -> PWM level.  if (percent < 0) percent = 0;
\* if (percent > 100) percent = 100;
\* uint level = (uint)(percent / 100.0f * PWM_WRAP);
set_speed(percent) ==
    CHOOSE v \in
      { F32ToUint(F32Mul(F32Div(IF x.m < 0 THEN F32Zero
                                ELSE IF F32Leq(x, Percent(100000)) THEN x
                                ELSE Percent(100000),
                                Percent(100000)),
                         F32OfInt(PWM_WRAP, 0)))
        : x \in { percent } } : TRUE

\* ------------------------------------------------------ Slew Rate Limiter
\* current is the float the program holds; target and rate are the clamped
\* arguments
SlewReset ==
    [current |-> F32Zero, target |-> 0, rate |-> DefaultRate, initialized |-> FALSE]

slew_init(s) ==
    [s EXCEPT !.current = F32Zero, !.target = 0, !.initialized = TRUE]

slew_set_target(s, target_percent, rate_percent_per_sec) ==
    LET s0 == IF s.initialized THEN s ELSE slew_init(s)
        t0 == IF target_percent < 0 THEN 0 ELSE target_percent
        t1 == IF t0 > 100000 THEN 100000 ELSE t0
    IN  [s0 EXCEPT !.target = t1,
                   !.rate = IF rate_percent_per_sec <= 0 THEN MinRate
                            ELSE rate_percent_per_sec]

\* float dt_s = (float)dt_us / 1e6f, for the dt_us of 1 .. 100000 ms, each
\* computed once and kept as a tuple
Seconds ==
    [d \in 1..100000 |-> F32Div(F32OfInt(d * 1000, 0), F32OfInt(1000000, 0))] \o << >>

\* a limiter that never snaps to the target: it steps by max_step even when
\* the remaining error is smaller
slew_step_NoSnap(s, dt_ms) ==
    CHOOSE v \in
      { IF error.m = 0 THEN s.current
        ELSE IF error.m > 0 THEN F32Add(s.current, max_step)
        ELSE F32Add(s.current, F32Neg(max_step))
        : max_step \in { F32Mul(F32OfInt(s.rate, 0), Seconds[dt_ms]) },
          error \in { F32Add(Percent(s.target), F32Neg(s.current)) } } : TRUE

\* the new value of current after an update that saw dt_ms > 0:
\* float max_step = g_slew.rate * dt_s;
\* float error = g_slew.target - g_slew.current;
\* if (fabsf(error) <= max_step) current = target;
\* else current += (error > 0 ? max_step : -max_step);
slew_step(s, dt_ms) ==
    CHOOSE v \in
      { IF F32Leq([m |-> Abs(error.m), e |-> error.e], max_step) THEN Percent(s.target)
        ELSE IF error.m > 0 THEN F32Add(s.current, max_step)
        ELSE F32Add(s.current, F32Neg(max_step))
        : max_step \in { F32Mul(F32OfInt(s.rate, 0), Seconds[dt_ms]) },
          error \in { F32Add(Percent(s.target), F32Neg(s.current)) } } : TRUE

\* ------------------------------------------------------------------- ages
\* last: g_slew.last_t; t0, stall, brake, nudge: the locals t0,
\* stall_ref_time, brake_to_stop's t0 and last_nudge; pulse: the time since
\* the handler last counted an edge of the current move, after its counter
\* reset (bookkeeping); done: the time since the last nudge of the current
\* hold completed its closing counter reset (bookkeeping).
NoAges == [last |-> NoTime, t0 |-> NoTime, stall |-> NoTime, brake |-> NoTime,
           nudge |-> NoTime, pulse |-> NoTime, done |-> NoTime]

\* slew_set_target as a statement: on first use slew_init stamps last_t and
\* writes the PWM level.
SetTargetStmt(target_percent, rate) ==
    /\ g_slew' = slew_set_target(g_slew, target_percent, rate)
    /\ pwm_level' = IF g_slew.initialized THEN pwm_level ELSE set_speed(F32Zero)

AgeAfterSetTarget(a) ==
    [a EXCEPT !.last = IF g_slew.initialized THEN @ ELSE 0]

\* slew_update as a statement
UpdateStmt ==
    LET s0 == IF g_slew.initialized THEN g_slew ELSE slew_init(g_slew)
        dt == IF g_slew.initialized THEN age.last ELSE 0
    IN  IF dt <= 0
        THEN /\ g_slew' = s0
             /\ pwm_level' = IF g_slew.initialized THEN pwm_level ELSE set_speed(F32Zero)
        ELSE /\ g_slew' = [s0 EXCEPT !.current = slew_step(s0, dt)]
             /\ pwm_level' = set_speed(g_slew'.current)

AgeAfterUpdate(a) == [a EXCEPT !.last = 0]

\* slew_update reaches a set_speed call: in slew_init on first use, or at
\* its end when it does not return early on dt_us <= 0
UpdateWrites == ~g_slew.initialized \/ age.last > 0


\* ------------------------------------------------- target_pulses_for_meters
\* (float)M_PI * DRUM_DIAMETER_M
drum_circumference_m ==
    F32Mul([m |-> PiMantissa, e |-> 0 - PiFractionBits], F32OfRatio(DrumDiameterMm, 1000))

\* GEAR_RATIO * FG_PULSES_PER_MOTOR_REV / drum_circumference_m() = 534.76062
pulses_per_meter ==
    F32Div(F32Mul(F32OfInt(GEAR_RATIO, 0), F32OfInt(FG_PULSES_PER_MOTOR_REV, 0)),
           drum_circumference_m)

\* meters in 1e-4 m (the float nearest to meters / 10000);
\* (uint32_t)(meters * pulses_per_meter + 0.5f)
target_pulses_for_meters(meters) ==
    IF meters <= 0 THEN 0
    ELSE F32ToUint(F32Add(F32Mul(F32OfRatio(meters, 10000), pulses_per_meter),
                          F32OfRatio(1, 2)))

\* ----------------------------------------------------------- stall bands
\* bands whose lower limits are exclusive
min_pulses_Exclusive(cmd) ==
    IF cmd <= 15000 THEN 0
    ELSE IF cmd <= 40000 THEN 1
    ELSE IF cmd <= 70000 THEN 2
    ELSE 3

min_pulses(cmd) ==
    IF cmd < 15000 THEN 0
    ELSE IF cmd < 40000 THEN 1
    ELSE IF cmd < 70000 THEN 2
    ELSE 3

\* if (min_pulses > 0 && dp < min_pulses): abort as stalled
stall_detected(dp, cmd) == min_pulses(cmd) > 0 /\ dp < min_pulses(cmd)

\* values returned by move_meters on its three return paths
RetTarget == TRUE
RetStall == FALSE
RetTimeout == FALSE

\* -------------------------------------------------------------- requests
MoveArgs(cw, meters, cruise_percent, timeout_ms, padding_m, padding_speed, stall_window_us) ==
    [cw |-> cw, meters |-> meters, cruise_percent |-> cruise_percent,
     timeout_ms |-> timeout_ms, padding_m |-> padding_m,
     padding_speed |-> padding_speed, stall_window_us |-> stall_window_us]

\* move_meters's default arguments
DefaultPaddingM == 2000
DefaultPaddingSpeed == 50000
DefaultStallWindowUs == 500000

\* direct calls of move_meters with small distances, windows and timeouts
MoveRequests ==
    { MoveArgs(TRUE, 93, 100000, 300, 40, 45012, 100000),
      MoveArgs(FALSE, 40, 10000, 200, DefaultPaddingM, 10000, 100000),
      MoveArgs(TRUE, 0, 100000, 100, DefaultPaddingM, DefaultPaddingSpeed, 100000),
      MoveArgs(FALSE, 0 - 30, 100000, 100, DefaultPaddingM, DefaultPaddingSpeed, 100000),
      MoveArgs(FALSE, 5, 100000, 100, DefaultPaddingM, DefaultPaddingSpeed, 100000) }

\* win: bookkeeping of the edges counted since stall_ref_time was stamped;
\* sets: bookkeeping of the slew_set_target calls made in the move: by
\* move_meters itself and by the brake_to_stop it calls;
\* c0: bookkeeping of g_slew.current at the first of them;
\* dp: the local dp of the stall check, kept until the reference is stored
NoMove ==
    [cw |-> FALSE, meters |-> 0, cruise_percent |-> 0, timeout_ms |-> 0,
     padding_m |-> 0, padding_speed |-> 0, stall_window_us |-> 0,
     target |-> 0, pad_pulses |-> 0, last_speed |-> 0,
     stall_ref_pulses |-> 0, now |-> 0, win |-> 0, sets |-> 0, c0 |-> F32Zero, dp |-> 0]

\* deferred: bookkeeping, the rate limit refused a nudge since the last
\* nudge completed;
\* nudges, slip: bookkeeping of the nudges started and of the edges counted
\* in the hold loop (outside a nudge) during the current hold
NoHold == [hold_ms |-> 0, tow_up_cw |-> FALSE, nudge_speed_percent |-> 0,
           deadband_pulses |-> 0, nudge_pulses |-> 0, min_nudge_gap_ms |-> 0,
           nudges |-> 0, slip |-> 0, deferred |-> FALSE]

NoBrake == [settle_ms |-> 0, ret |-> "none"]

\* test driver of the Speed Commander: calls made; current at, time since
\* and arguments of the last set_target; the last call made and whether it
\* wrote the PWM level
NoTest == [calls |-> 0, c0 |-> F32Zero, since |-> NoTime, percent |-> 0, rate |-> 0,
           op |-> "none", wrote |-> FALSE]

\* An age saturates where a larger value is the same to every comparison the
\* code makes with it: one past the threshold it is compared with, and for
\* last_t the dt at which the slowest rate in use covers the full 0..100.
SlowestRate == IF pc = "test" THEN MinRate ELSE Min(MoveRate, Min(BrakeRate, NudgeRate))

AgeSat(f) ==
    CASE f = "last" -> 100000 \div SlowestRate
      [] f = "t0" -> (IF mv = NoMove THEN hd.hold_ms ELSE mv.timeout_ms) + 1
      [] f = "stall" -> mv.stall_window_us \div 1000 + 1
      [] f = "brake" -> bk.settle_ms + 1
      [] f = "nudge" -> hd.min_nudge_gap_ms + 1
      [] f = "pulse" -> 3 * (mv.stall_window_us \div 1000)
      [] f = "done" -> hd.min_nudge_gap_ms + 1

Advance(a, d) ==
    [f \in DOMAIN a |-> IF a[f] = NoTime THEN NoTime ELSE Min(a[f] + d, AgeSat(f))]

\* blocking-ramp revision (src/Motor-Control/Motor-Control.cpp):
\* ramp_to's `static float current = 0.0f` (only ever an argument of a
\* call: milli-percent), its loop variable p (the float), its arguments,
\* and the position ramp_to returns to
NoRamp == [current |-> 0, p |-> F32Zero, target |-> 0, step |-> 0, delay |-> 0, ret |-> "none"]

\* move_meters of the blocking-ramp revision: arguments, locals, and the
\* ages of its two timestamps
NoBlockingMove ==
    [cw |-> TRUE, meters |-> 0, cruise_percent |-> 0, timeout_ms |-> 0,
     target |-> 0, last_pulses |-> 0, now |-> 0, slowdown_triggered |-> FALSE,
     t0 |-> NoTime, last_progress |-> NoTime]

\* ------------------------------------------------------------------- Init
Init ==
    /\ pc = "idle"
    /\ ticked = FALSE
    /\ g_fg_pulses = 0
    /\ irq_en = TRUE
    /\ irq_pend = FALSE
    /\ g_slew = SlewReset
    /\ pwm_level = 0
    /\ dir_pin = 0
    /\ age = NoAges
    /\ mv = NoMove
    /\ hd = NoHold
    /\ bk = NoBrake
    /\ rs = "none"
    /\ ret = TRUE
    /\ path = "none"
    /\ hs = NoTest
    /\ ramp = NoRamp
    /\ bm = NoBlockingMove

\* one statement of the main line
Stmt(from, to) ==
    /\ pc = from
    /\ pc' = to
    /\ ticked' = ticked

\* a statement that starts a call or a loop iteration: the clock may advance
\* once more before the next one
Begin(from) ==
    /\ pc = from
    /\ ticked' = FALSE

\* ------------------------------------------------------------------ clock
Tick ==
    /\ ~ticked
    /\ pc # "test"
    /\ ticked' = TRUE
    /\ age' = Advance(age, TickMs)
    /\ UNCHANGED << pc, g_fg_pulses, irq_en, irq_pend, g_slew, pwm_level,
                    dir_pin, mv, hd, bk, rs, ret, path, hs, ramp, bm >>

\* ----------------------------------------------------------- fg_irq_handler
HoldLoopPcs == { "h_t0", "h_last", "h_loop", "h_update", "h_slip", "h_gap",
                 "h_sleep", "n_stamp" }

MovePcs == { "m_entry", "m_setup", "m_t0", "m_ref_t", "m_ref_p", "m_loop",
             "m_update", "m_sample", "m_stall", "m_dp", "m_new_p", "m_new_t",
             "m_timeout", "m_speed" }

\* A rising edge on FG_PIN.  Enabled: the handler runs and counts it.
\* Disabled: the event is latched in the raw interrupt status until the
\* interrupt is enabled again (IrqUnmask).
FgEdge ==
    /\ IF irq_en
       THEN /\ g_fg_pulses < MaxPulses
            /\ g_fg_pulses' = g_fg_pulses + 1
            /\ age' = [age EXCEPT !.pulse = IF pc \in MovePcs \ { "m_entry" }
                                             THEN 0 ELSE @]
            /\ hd' = [hd EXCEPT !.slip = IF pc \in HoldLoopPcs THEN @ + 1 ELSE @]
            /\ mv' = [mv EXCEPT !.win = IF pc \in MovePcs /\ age.stall # NoTime
                                        THEN @ + 1 ELSE @]
            /\ UNCHANGED irq_pend
       ELSE /\ ~irq_pend
            /\ irq_pend' = TRUE
            /\ UNCHANGED << g_fg_pulses, age, hd, mv >>
    /\ UNCHANGED << pc, ticked, irq_en, g_slew, pwm_level, dir_pin,
                    bk, rs, ret, path, hs, ramp, bm >>

\* BurstPulses rising edges in a row between two statements of the move
\* loop: the handler runs once for each
FgBurst ==
    /\ pc \in MovePcs
    /\ age.stall # NoTime
    /\ irq_en
    /\ g_fg_pulses + BurstPulses <= 4 * BurstPulses
    /\ g_fg_pulses' = g_fg_pulses + BurstPulses
    /\ age' = [age EXCEPT !.pulse = 0]
    /\ mv' = [mv EXCEPT !.win = @ + BurstPulses]
    /\ UNCHANGED << pc, ticked, irq_en, irq_pend, g_slew, pwm_level, dir_pin,
                    hd, bk, rs, ret, path, hs, ramp, bm >>

\* ------------------------------------------ counter reset (mask, 0, unmask)
\* a reset that leaves the interrupt enabled while it stores 0
IrqMask ==
    /\ Stmt("r_mask", "r_zero")
    /\ irq_en' = FALSE
    /\ UNCHANGED << irq_pend, g_fg_pulses, g_slew, pwm_level, dir_pin, age, mv, hd, bk,
                    rs, ret, path, hs, ramp, bm >>

CounterZero ==
    /\ Stmt("r_zero", "r_unmask")
    /\ g_fg_pulses' = 0
    /\ UNCHANGED << irq_en, irq_pend, g_slew, pwm_level, dir_pin, age, mv, hd,
                    bk, rs, ret, path, hs, ramp, bm >>

\* gpio_set_irq_enabled(FG_PIN, GPIO_IRQ_EDGE_RISE, true).  What becomes of
\* an edge latched while the interrupt was disabled is decided inside the
\* SDK function, whose code is not among the sources: either the call
\* acknowledges the event (the edge is dropped), or the event is still
\* pending when the interrupt is enabled and fg_irq_handler counts it at
\* once, before the statement that follows the reset.  Both outcomes are
\* kept.
IrqUnmask ==
    /\ Stmt("r_unmask", rs)
    /\ irq_en' = TRUE
    /\ irq_pend' = FALSE
    /\ rs' = "none"
    /\ \E counted \in (IF irq_pend THEN BOOLEAN ELSE { FALSE }) :
         /\ g_fg_pulses' = IF counted THEN g_fg_pulses + 1 ELSE g_fg_pulses
         /\ age' = [age EXCEPT !.done = IF rs = "n_stamp" THEN 0 ELSE @,
                               !.pulse = IF counted /\ rs \in MovePcs THEN 0 ELSE @]
         /\ hd' = [hd EXCEPT !.slip = IF counted /\ rs \in HoldLoopPcs
                                      THEN @ + 1 ELSE @]
    /\ UNCHANGED << g_slew, pwm_level, dir_pin, mv, bk, ret, path, hs, ramp, bm >>

\* ------------------------------------------------------------ brake_to_stop
BrakeSet ==
    /\ Stmt("b_set", "b_t0")
    /\ SetTargetStmt(0, BrakeRate)
    /\ age' = AgeAfterSetTarget(age)
    /\ mv' = [mv EXCEPT !.sets = IF bk.ret = "m_ret" THEN @ + 1 ELSE @]
    /\ UNCHANGED << g_fg_pulses, irq_en, irq_pend, dir_pin, hd, bk, rs,
                    ret, path, hs, ramp, bm >>

BrakeT0 ==
    /\ Stmt("b_t0", "b_test")
    /\ age' = [age EXCEPT !.brake = 0]
    /\ UNCHANGED << g_fg_pulses, irq_en, irq_pend, g_slew, pwm_level, dir_pin,
                    mv, hd, bk, rs, ret, path, hs, ramp, bm >>

\* a brake that returns without waiting for the ramp to settle
BrakeTest_NoSettle ==
    /\ Begin("b_test")
    /\ pc' = bk.ret
    /\ age' = [age EXCEPT !.brake = NoTime]
    /\ bk' = NoBrake
    /\ UNCHANGED << g_fg_pulses, irq_en, irq_pend, g_slew, pwm_level, dir_pin,
                    mv, hd, rs, ret, path, hs, ramp, bm >>

BrakeTest ==
    /\ Begin("b_test")
    /\ IF age.brake * 1000 < bk.settle_ms * 1000
       THEN /\ pc' = "b_update"
            /\ UNCHANGED << age, bk >>
       ELSE /\ pc' = bk.ret
            /\ age' = [age EXCEPT !.brake = NoTime]
            /\ bk' = NoBrake
    /\ UNCHANGED << g_fg_pulses, irq_en, irq_pend, g_slew, pwm_level, dir_pin,
                    mv, hd, rs, ret, path, hs, ramp, bm >>

BrakeUpdate ==
    /\ Stmt("b_update", "b_test")
    /\ UpdateStmt
    /\ age' = AgeAfterUpdate(age)
    /\ UNCHANGED << g_fg_pulses, irq_en, irq_pend, dir_pin, mv, hd, bk, rs,
                    ret, path, hs, ramp, bm >>

\* -------------------------------------------------------------- move_meters
CallMove(req) ==
    /\ Begin("idle")
    /\ pc' = "m_entry"
    /\ mv' = [NoMove EXCEPT !.cw = req.cw, !.meters = req.meters,
                            !.cruise_percent = req.cruise_percent,
                            !.timeout_ms = req.timeout_ms,
                            !.padding_m = req.padding_m,
                            !.padding_speed = req.padding_speed,
                            !.stall_window_us = req.stall_window_us]
    /\ path' = "none"
    /\ UNCHANGED << g_fg_pulses, irq_en, irq_pend, g_slew, pwm_level, dir_pin,
                    age, hd, bk, rs, ret, hs, ramp, bm >>

\* pad_pulses after the short-move collapse
pad_pulses_for(target, padding_m) ==
    LET pad == target_pulses_for_meters(padding_m)
    IN  IF pad * 2 >= target THEN target \div 2 ELSE pad

\* a move without the early return on a zero pulse target
MoveEntry_NoEarlyReturn ==
    /\ pc = "m_entry"
    /\ ticked' = ticked
    /\ LET target == target_pulses_for_meters(mv.meters)
       IN  /\ pc' = "r_mask"
           /\ rs' = "m_setup"
           /\ mv' = [mv EXCEPT !.target = target,
                               !.pad_pulses = pad_pulses_for(target, mv.padding_m)]
    /\ UNCHANGED << g_fg_pulses, irq_en, irq_pend, g_slew, pwm_level, dir_pin,
                    age, hd, bk, ret, path, hs, ramp, bm >>

MoveEntry ==
    /\ pc = "m_entry"
    /\ ticked' = ticked
    /\ LET target == target_pulses_for_meters(mv.meters)
       IN  IF target = 0
           THEN /\ pc' = "idle"
                /\ ret' = TRUE
                /\ path' = "zero"
                /\ mv' = NoMove
                /\ rs' = rs
           ELSE /\ pc' = "r_mask"
                /\ rs' = "m_setup"
                /\ mv' = [mv EXCEPT !.target = target,
                                    !.pad_pulses = pad_pulses_for(target, mv.padding_m)]
                /\ UNCHANGED << ret, path >>
    /\ UNCHANGED << g_fg_pulses, irq_en, irq_pend, g_slew, pwm_level, dir_pin,
                    age, hd, bk, hs, ramp, bm >>

MoveSetup ==
    /\ Stmt("m_setup", "m_t0")
    /\ dir_pin' = IF mv.cw THEN 0 ELSE 1
    /\ LET start_speed == IF mv.pad_pulses > 0 THEN mv.padding_speed
                          ELSE mv.cruise_percent
       IN  /\ SetTargetStmt(start_speed, MoveRate)
           /\ mv' = [mv EXCEPT !.last_speed = start_speed, !.sets = @ + 1,
                               !.c0 = g_slew.current]
    /\ age' = AgeAfterSetTarget(age)
    /\ UNCHANGED << g_fg_pulses, irq_en, irq_pend, hd, bk, rs, ret, path, hs, ramp, bm >>

MoveT0 ==
    /\ Stmt("m_t0", "m_ref_t")
    /\ age' = [age EXCEPT !.t0 = 0]
    /\ UNCHANGED << g_fg_pulses, irq_en, irq_pend, g_slew, pwm_level, dir_pin,
                    mv, hd, bk, rs, ret, path, hs, ramp, bm >>

MoveRefTime ==
    /\ Stmt("m_ref_t", "m_ref_p")
    /\ age' = [age EXCEPT !.stall = 0]
    /\ mv' = [mv EXCEPT !.win = 0]
    /\ UNCHANGED << g_fg_pulses, irq_en, irq_pend, g_slew, pwm_level, dir_pin,
                    hd, bk, rs, ret, path, hs, ramp, bm >>

MoveRefPulses ==
    /\ Stmt("m_ref_p", "m_loop")
    /\ mv' = [mv EXCEPT !.stall_ref_pulses = g_fg_pulses]
    /\ UNCHANGED << g_fg_pulses, irq_en, irq_pend, g_slew, pwm_level, dir_pin,
                    age, hd, bk, rs, ret, path, hs, ramp, bm >>

\* while (g_fg_pulses < target) ... ; brake_to_stop(); return true;
MoveLoop ==
    /\ Begin("m_loop")
    /\ IF g_fg_pulses < mv.target
       THEN /\ pc' = "m_update"
            /\ UNCHANGED << bk, path, age >>
       ELSE /\ pc' = "b_set"
            /\ bk' = [settle_ms |-> BrakeSettleMs, ret |-> "m_ret"]
            /\ path' = "target"
            /\ age' = [age EXCEPT !.pulse = NoTime]
    /\ UNCHANGED << g_fg_pulses, irq_en, irq_pend, g_slew, pwm_level, dir_pin,
                    mv, hd, rs, ret, hs, ramp, bm >>

MoveUpdate ==
    /\ Stmt("m_update", "m_sample")
    /\ UpdateStmt
    /\ age' = AgeAfterUpdate(age)
    /\ UNCHANGED << g_fg_pulses, irq_en, irq_pend, dir_pin, mv, hd, bk, rs,
                    ret, path, hs, ramp, bm >>

MoveSample ==
    /\ Stmt("m_sample", "m_stall")
    /\ mv' = [mv EXCEPT !.now = g_fg_pulses]
    /\ UNCHANGED << g_fg_pulses, irq_en, irq_pend, g_slew, pwm_level, dir_pin,
                    age, hd, bk, rs, ret, path, hs, ramp, bm >>

\* ---- Stall detection ----
MoveStallTest ==
    /\ pc = "m_stall"
    /\ ticked' = ticked
    /\ pc' = IF age.stall * 1000 > mv.stall_window_us THEN "m_dp" ELSE "m_timeout"
    /\ UNCHANGED << g_fg_pulses, irq_en, irq_pend, g_slew, pwm_level, dir_pin,
                    age, mv, hd, bk, rs, ret, path, hs, ramp, bm >>

MoveStallDp ==
    /\ pc = "m_dp"
    /\ ticked' = ticked
    /\ LET dp == g_fg_pulses - mv.stall_ref_pulses
           cmd == g_slew.target
       IN  IF stall_detected(dp, cmd)
           THEN /\ pc' = "b_set"
                /\ bk' = [settle_ms |-> BrakeSettleMs, ret |-> "m_ret"]
                /\ path' = "stall"
                /\ age' = [age EXCEPT !.pulse = NoTime]
                /\ mv' = mv
           ELSE /\ pc' = "m_new_p"
                /\ mv' = [mv EXCEPT !.dp = dp]
                /\ UNCHANGED << bk, path, age >>
    /\ UNCHANGED << g_fg_pulses, irq_en, irq_pend, g_slew, pwm_level, dir_pin,
                    hd, rs, ret, hs, ramp, bm >>

MoveNewRefPulses ==
    /\ Stmt("m_new_p", "m_new_t")
    /\ mv' = [mv EXCEPT !.stall_ref_pulses = g_fg_pulses, !.dp = 0]
    /\ UNCHANGED << g_fg_pulses, irq_en, irq_pend, g_slew, pwm_level, dir_pin,
                    age, hd, bk, rs, ret, path, hs, ramp, bm >>

MoveNewRefTime ==
    /\ Stmt("m_new_t", "m_timeout")
    /\ age' = [age EXCEPT !.stall = 0]
    /\ mv' = [mv EXCEPT !.win = 0]
    /\ UNCHANGED << g_fg_pulses, irq_en, irq_pend, g_slew, pwm_level, dir_pin,
                    hd, bk, rs, ret, path, hs, ramp, bm >>

\* ---- Timeout ----
\* a move loop without the timeout abort
MoveTimeout_Never ==
    /\ pc = "m_timeout"
    /\ ticked' = ticked
    /\ pc' = "m_speed"
    /\ UNCHANGED << g_fg_pulses, irq_en, irq_pend, g_slew, pwm_level, dir_pin,
                    age, mv, hd, bk, rs, ret, path, hs, ramp, bm >>

MoveTimeout ==
    /\ pc = "m_timeout"
    /\ ticked' = ticked
    /\ IF age.t0 * 1000 > mv.timeout_ms * 1000
       THEN /\ pc' = "b_set"
            /\ bk' = [settle_ms |-> BrakeSettleMs, ret |-> "m_ret"]
            /\ path' = "timeout"
            /\ age' = [age EXCEPT !.pulse = NoTime]
       ELSE /\ pc' = "m_speed"
            /\ UNCHANGED << bk, path, age >>
    /\ UNCHANGED << g_fg_pulses, irq_en, irq_pend, g_slew, pwm_level, dir_pin,
                    mv, hd, rs, ret, hs, ramp, bm >>

\* ---- Speed Selection ----
desired_speed(now, target, pad_pulses, padding_speed, cruise_percent) ==
    LET remaining == IF now < target THEN target - now ELSE 0
    IN  IF now < pad_pulses THEN padding_speed
        ELSE IF remaining < pad_pulses THEN padding_speed
        ELSE cruise_percent

\* fabsf(desired_speed - last_speed) > 0.01f.  The float difference is
\* within 0.00001 of the exact one, so it decides only when the speeds are
\* exactly 0.010 % apart (20.01f - 20.0f > 0.01f, 50.01f - 50.0f < 0.01f).
speed_changed(desired, last_speed) ==
    CHOOSE v \in
      { IF diff # 10 THEN diff > 10
        ELSE LET a == F32Add(Percent(desired), F32Neg(Percent(last_speed)))
             IN  ~F32Leq([m |-> Abs(a.m), e |-> a.e], F32OfRatio(1, 100))
        : diff \in { Abs(desired - last_speed) } } : TRUE

\* a speed selection that re-issues the target in every iteration
MoveSpeed_AlwaysSet ==
    /\ Stmt("m_speed", "m_loop")
    /\ LET d == desired_speed(mv.now, mv.target, mv.pad_pulses,
                              mv.padding_speed, mv.cruise_percent)
       IN  /\ SetTargetStmt(d, MoveRate)
           /\ mv' = [mv EXCEPT !.last_speed = d, !.sets = Min(@ + 1, 4)]
           /\ age' = AgeAfterSetTarget(age)
    /\ UNCHANGED << g_fg_pulses, irq_en, irq_pend, dir_pin, hd, bk, rs, ret,
                    path, hs, ramp, bm >>

MoveSpeed ==
    /\ Stmt("m_speed", "m_loop")
    /\ LET d == desired_speed(mv.now, mv.target, mv.pad_pulses,
                              mv.padding_speed, mv.cruise_percent)
       IN  IF speed_changed(d, mv.last_speed)
           THEN /\ SetTargetStmt(d, MoveRate)
                /\ mv' = [mv EXCEPT !.last_speed = d, !.sets = @ + 1]
                /\ age' = AgeAfterSetTarget(age)
           ELSE UNCHANGED << g_slew, pwm_level, mv, age >>
    /\ UNCHANGED << g_fg_pulses, irq_en, irq_pend, dir_pin, hd, bk, rs, ret,
                    path, hs, ramp, bm >>

\* return true / return false; the locals go out of scope
MoveReturn ==
    /\ Stmt("m_ret", "idle")
    /\ ret' = CASE path = "target" -> RetTarget
                [] path = "stall" -> RetStall
                [] OTHER -> RetTimeout
    /\ mv' = NoMove
    /\ age' = [age EXCEPT !.t0 = NoTime, !.stall = NoTime]
    /\ UNCHANGED << g_fg_pulses, irq_en, irq_pend, g_slew, pwm_level, dir_pin,
                    hd, bk, rs, path, hs, ramp, bm >>

\* ---------------------------------------------------------- hold_payload_ms
HoldArgs(hold_ms, tow_up_cw, nudge_speed_percent, deadband_pulses, nudge_pulses, min_nudge_gap_ms) ==
    [hold_ms |-> hold_ms, tow_up_cw |-> tow_up_cw,
     nudge_speed_percent |-> nudge_speed_percent,
     deadband_pulses |-> deadband_pulses, nudge_pulses |-> nudge_pulses,
     min_nudge_gap_ms |-> min_nudge_gap_ms]

HoldRequests ==
    { HoldArgs(150, TRUE, 50000, 1, 2, 30),
      HoldArgs(60, FALSE, 45012, 0, 1, 20) }

CallHold(req) ==
    /\ Begin("idle")
    /\ pc' = "h_entry"
    /\ hd' = [NoHold EXCEPT !.hold_ms = req.hold_ms, !.tow_up_cw = req.tow_up_cw,
                            !.nudge_speed_percent = req.nudge_speed_percent,
                            !.deadband_pulses = req.deadband_pulses,
                            !.nudge_pulses = req.nudge_pulses,
                            !.min_nudge_gap_ms = req.min_nudge_gap_ms]
    /\ path' = "none"
    /\ UNCHANGED << g_fg_pulses, irq_en, irq_pend, g_slew, pwm_level, dir_pin,
                    age, mv, bk, rs, ret, hs, ramp, bm >>

\* brake_to_stop(200); then reset pulse counter at start of hold
HoldEntry ==
    /\ Stmt("h_entry", "b_set")
    /\ bk' = [settle_ms |-> HoldSettleMs, ret |-> "r_mask"]
    /\ rs' = "h_t0"
    /\ UNCHANGED << g_fg_pulses, irq_en, irq_pend, g_slew, pwm_level, dir_pin,
                    age, mv, hd, ret, path, hs, ramp, bm >>

HoldT0 ==
    /\ Stmt("h_t0", "h_last")
    /\ age' = [age EXCEPT !.t0 = 0]
    /\ UNCHANGED << g_fg_pulses, irq_en, irq_pend, g_slew, pwm_level, dir_pin,
                    mv, hd, bk, rs, ret, path, hs, ramp, bm >>

HoldLastNudge ==
    /\ Stmt("h_last", "h_loop")
    /\ age' = [age EXCEPT !.nudge = 0]
    /\ UNCHANGED << g_fg_pulses, irq_en, irq_pend, g_slew, pwm_level, dir_pin,
                    mv, hd, bk, rs, ret, path, hs, ramp, bm >>

HoldLoop ==
    /\ Begin("h_loop")
    /\ pc' = IF age.t0 * 1000 < hd.hold_ms * 1000 THEN "h_update" ELSE "h_ret"
    /\ UNCHANGED << g_fg_pulses, irq_en, irq_pend, g_slew, pwm_level, dir_pin,
                    age, mv, hd, bk, rs, ret, path, hs, ramp, bm >>

HoldUpdate ==
    /\ Stmt("h_update", "h_slip")
    /\ UpdateStmt
    /\ age' = AgeAfterUpdate(age)
    /\ UNCHANGED << g_fg_pulses, irq_en, irq_pend, dir_pin, mv, hd, bk, rs,
                    ret, path, hs, ramp, bm >>

\* if (g_fg_pulses > deadband_pulses)
HoldSlipTest ==
    /\ pc = "h_slip"
    /\ ticked' = ticked
    /\ pc' = IF g_fg_pulses > hd.deadband_pulses THEN "h_gap" ELSE "h_sleep"
    /\ UNCHANGED << g_fg_pulses, irq_en, irq_pend, g_slew, pwm_level, dir_pin,
                    age, mv, hd, bk, rs, ret, path, hs, ramp, bm >>

\* a hold that nudges on every slip, without the rate limit
HoldGapTest_NoGap ==
    /\ pc = "h_gap"
    /\ ticked' = ticked
    /\ pc' = "r_mask"
    /\ rs' = "n_set"
    /\ UNCHANGED << g_fg_pulses, irq_en, irq_pend, g_slew, pwm_level, dir_pin,
                    age, mv, hd, bk, ret, path, hs, ramp, bm >>

\* rate-limit nudges; a nudge starts with a counter reset
HoldGapTest ==
    /\ pc = "h_gap"
    /\ ticked' = ticked
    /\ IF age.nudge * 1000 > hd.min_nudge_gap_ms * 1000
       THEN /\ pc' = "r_mask"
            /\ rs' = "n_set"
       ELSE /\ pc' = "h_sleep"
            /\ rs' = rs
    /\ hd' = [hd EXCEPT !.deferred = @ \/ pc' = "h_sleep"]
    /\ UNCHANGED << g_fg_pulses, irq_en, irq_pend, g_slew, pwm_level, dir_pin,
                    age, mv, bk, ret, path, hs, ramp, bm >>

NudgeSet ==
    /\ Stmt("n_set", "n_loop")
    /\ dir_pin' = IF hd.tow_up_cw THEN 0 ELSE 1
    /\ SetTargetStmt(hd.nudge_speed_percent, NudgeRate)
    /\ age' = AgeAfterSetTarget(age)
    /\ hd' = [hd EXCEPT !.nudges = Min(@ + 1, 2)]
    /\ UNCHANGED << g_fg_pulses, irq_en, irq_pend, mv, bk, rs, ret, path, hs, ramp, bm >>

\* while (g_fg_pulses < nudge_pulses) ... ; brake_to_stop(200); counter reset
NudgeLoop ==
    /\ Begin("n_loop")
    /\ IF g_fg_pulses < hd.nudge_pulses
       THEN /\ pc' = "n_update"
            /\ UNCHANGED << bk, rs >>
       ELSE /\ pc' = "b_set"
            /\ bk' = [settle_ms |-> HoldSettleMs, ret |-> "r_mask"]
            /\ rs' = "n_stamp"
    /\ UNCHANGED << g_fg_pulses, irq_en, irq_pend, g_slew, pwm_level, dir_pin,
                    age, mv, hd, ret, path, hs, ramp, bm >>

NudgeUpdate ==
    /\ Stmt("n_update", "n_loop")
    /\ UpdateStmt
    /\ age' = AgeAfterUpdate(age)
    /\ UNCHANGED << g_fg_pulses, irq_en, irq_pend, dir_pin, mv, hd, bk, rs,
                    ret, path, hs, ramp, bm >>

\* a nudge that does not record when it completed
NudgeStamp_NoStamp ==
    /\ Stmt("n_stamp", "h_sleep")
    /\ hd' = [hd EXCEPT !.deferred = FALSE]
    /\ UNCHANGED << g_fg_pulses, irq_en, irq_pend, g_slew, pwm_level, dir_pin,
                    age, mv, bk, rs, ret, path, hs, ramp, bm >>

\* last_nudge = get_absolute_time();
NudgeStamp ==
    /\ Stmt("n_stamp", "h_sleep")
    /\ age' = [age EXCEPT !.nudge = 0]
    /\ hd' = [hd EXCEPT !.deferred = FALSE]
    /\ UNCHANGED << g_fg_pulses, irq_en, irq_pend, g_slew, pwm_level, dir_pin,
                    mv, bk, rs, ret, path, hs, ramp, bm >>

\* sleep_ms(10)
HoldSleep ==
    /\ Stmt("h_sleep", "h_loop")
    /\ age' = Advance(age, HoldSleepMs)
    /\ UNCHANGED << g_fg_pulses, irq_en, irq_pend, g_slew, pwm_level, dir_pin,
                    mv, hd, bk, rs, ret, path, hs, ramp, bm >>

HoldReturn ==
    /\ Stmt("h_ret", "idle")
    /\ ret' = TRUE
    /\ path' = "hold"
    /\ hd' = NoHold
    /\ age' = [age EXCEPT !.t0 = NoTime, !.nudge = NoTime, !.done = NoTime]
    /\ UNCHANGED << g_fg_pulses, irq_en, irq_pend, g_slew, pwm_level, dir_pin,
                    mv, bk, rs, hs, ramp, bm >>

\* the application's pause between cycles: sleep_ms(5000)
CallSleep ==
    /\ Begin("idle")
    /\ pc' = "idle"
    /\ age.last # NoTime
    /\ age.last < AgeSat("last")
    /\ age' = Advance(age, PauseMs)
    /\ UNCHANGED << g_fg_pulses, irq_en, irq_pend, g_slew, pwm_level, dir_pin,
                    mv, hd, bk, rs, ret, path, hs, ramp, bm >>

Move ==
    \/ MoveEntry \/ MoveSetup \/ MoveT0 \/ MoveRefTime \/ MoveRefPulses
    \/ MoveLoop \/ MoveUpdate \/ MoveSample \/ MoveStallTest \/ MoveStallDp
    \/ MoveNewRefPulses \/ MoveNewRefTime \/ MoveTimeout \/ MoveSpeed
    \/ MoveReturn

Hold ==
    \/ HoldEntry \/ HoldT0 \/ HoldLastNudge \/ HoldLoop \/ HoldUpdate
    \/ HoldSlipTest \/ HoldGapTest \/ NudgeSet \/ NudgeLoop \/ NudgeUpdate
    \/ NudgeStamp \/ HoldSleep \/ HoldReturn

Brake == BrakeSet \/ BrakeT0 \/ BrakeTest \/ BrakeUpdate

Reset == IrqMask \/ CounterZero \/ IrqUnmask

Call ==
    \/ \E req \in MoveRequests : CallMove(req)
    \/ \E req \in HoldRequests : CallHold(req)
    \/ CallSleep

Main == Call \/ Move \/ Hold \/ Brake \/ Reset

Next == Main \/ Tick \/ FgEdge

Spec == Init /\ [][Next]_vars

\* ------------------------------------------------------------- scheduling
\* The main line always executes its next statement and the clock keeps
\* advancing; nothing is assumed of the feedback source.
LiveMoveRequests ==
    { MoveArgs(TRUE, 56, 60000, 150, 19, 50000, 100000),
      MoveArgs(FALSE, 40, 10000, 100, DefaultPaddingM, 10000, 100000),
      MoveArgs(FALSE, 0, 100000, 100, DefaultPaddingM, DefaultPaddingSpeed, 100000) }

MainMove == (\E req \in LiveMoveRequests : CallMove(req)) \/ Move \/ Brake \/ Reset

NextMove == MainMove \/ Tick \/ FgEdge

FairMove == Init /\ [][NextMove]_vars /\ WF_vars(MainMove) /\ WF_vars(Tick)

MainHold == (\E req \in HoldRequests : CallHold(req)) \/ Hold \/ Brake \/ Reset

NextHold == MainHold \/ Tick \/ FgEdge

FairHold == Init /\ [][NextHold]_vars /\ WF_vars(MainHold) /\ WF_vars(Tick)

\* the 0.6 m move of the application's cycle, with a short timeout
EndRequests ==
    { MoveArgs(TRUE, 6000, 100000, 1500, DefaultPaddingM, DefaultPaddingSpeed, DefaultStallWindowUs) }

MainEnd == (\E req \in EndRequests : CallMove(req)) \/ Move \/ Brake \/ Reset

NextEnd == MainEnd \/ Tick \/ FgBurst

SpecEnd == Init /\ [][NextEnd]_vars

\* moves too short for the default 0.2 m padding: targets 1, 2, 3 and 4
ShortRequests ==
    { MoveArgs(TRUE, 19, 100000, 200, DefaultPaddingM, DefaultPaddingSpeed, 100000),
      MoveArgs(FALSE, 37, 100000, 200, DefaultPaddingM, DefaultPaddingSpeed, 100000),
      MoveArgs(TRUE, 56, 100000, 200, DefaultPaddingM, DefaultPaddingSpeed, 100000),
      MoveArgs(FALSE, 75, 100000, 200, DefaultPaddingM, DefaultPaddingSpeed, 100000) }

MainShort == (\E req \in ShortRequests : CallMove(req)) \/ Move \/ Brake \/ Reset

NextShort == MainShort \/ Tick \/ FgEdge

SpecShort == Init /\ [][NextShort]_vars

\* ------------------------------------------------------------- public API
\* unwind = CCW (cw=false), wind = CW (cw=true); timeout 60 s and
\* move_meters's default padding and stall window
unwind_payload_m(meters, speed_percent) ==
    MoveArgs(FALSE, meters, speed_percent, ApiTimeoutMs, DefaultPaddingM, DefaultPaddingSpeed, DefaultStallWindowUs)

wind_payload_m(meters, speed_percent) ==
    MoveArgs(TRUE, meters, speed_percent, ApiTimeoutMs, DefaultPaddingM, DefaultPaddingSpeed, DefaultStallWindowUs)

\* 9.3 mm moves (target 5, pad_pulses 2) at the default speeds
ApiRequests ==
    { unwind_payload_m(93, UnwindDefaultSpeed),
      wind_payload_m(93, WindDefaultSpeed) }

MainApi == (\E req \in ApiRequests : CallMove(req)) \/ Move \/ Brake \/ Reset

NextApi == MainApi \/ Tick \/ FgEdge

SpecApi == Init /\ [][NextApi]_vars

\* 5.6 mm moves (target 3) without padding, at speeds on both sides of
\* every stall band limit
BandRequests ==
    { MoveArgs(TRUE, 56, c, 250, 0, c, 100000)
      : c \in { 14999, 15000, 39999, 40000, 69999, 70000 } }

MainBands == (\E req \in BandRequests : CallMove(req)) \/ Move \/ Brake \/ Reset

NextBands == MainBands \/ Tick \/ FgEdge

SpecBands == Init /\ [][NextBands]_vars

\* holds long enough for a second nudge after the first one's brake
LongHoldRequests ==
    { HoldArgs(450, TRUE, 50000, 1, 2, 100),
      HoldArgs(400, FALSE, 30000, 0, 1, 50) }

MainLongHold == (\E req \in LongHoldRequests : CallHold(req)) \/ Hold \/ Brake \/ Reset

NextLongHold == MainLongHold \/ Tick \/ FgEdge

SpecHold == Init /\ [][NextLongHold]_vars

\* --------------------------------------------- Speed Commander test driver
\* Arbitrary sequences of slew_set_target, slew_update and passing time,
\* MaxCalls steps long, starting from the uninitialised g_slew.
TestPercents == { 0 - 20000, 0, 30000, 45012, 100000, 130000 }
TestRates == { 0 - 5, 0, 50, 200 }
TestSteps == { 50, 1000, 60000 }

InitTest ==
    /\ pc = "test"
    /\ ticked = FALSE
    /\ g_fg_pulses = 0
    /\ irq_en = TRUE
    /\ irq_pend = FALSE
    /\ g_slew = SlewReset
    /\ pwm_level = 0
    /\ dir_pin = 0
    /\ age = NoAges
    /\ mv = NoMove
    /\ hd = NoHold
    /\ bk = NoBrake
    /\ rs = "none"
    /\ ret = TRUE
    /\ path = "none"
    /\ hs = NoTest
    /\ ramp = NoRamp
    /\ bm = NoBlockingMove

TestSetTarget(percent, rate) ==
    /\ pc = "test"
    /\ hs.calls < MaxCalls
    /\ SetTargetStmt(percent, rate)
    /\ age' = AgeAfterSetTarget(age)
    /\ hs' = [calls |-> hs.calls + 1, c0 |-> g_slew'.current, since |-> 0,
              percent |-> percent, rate |-> rate,
              op |-> "set_target", wrote |-> ~g_slew.initialized]
    /\ UNCHANGED << pc, ticked, g_fg_pulses, irq_en, irq_pend, dir_pin, mv,
                    hd, bk, rs, ret, path, ramp, bm >>

TestUpdate ==
    /\ pc = "test"
    /\ hs.calls < MaxCalls
    /\ UpdateStmt
    /\ age' = AgeAfterUpdate(age)
    /\ hs' = [hs EXCEPT !.calls = @ + 1, !.op = "update",
                        !.wrote = UpdateWrites]
    /\ UNCHANGED << pc, ticked, g_fg_pulses, irq_en, irq_pend, dir_pin, mv,
                    hd, bk, rs, ret, path, ramp, bm >>

TestAdvance(d) ==
    /\ pc = "test"
    /\ hs.calls < MaxCalls
    /\ age' = Advance(age, d)
    /\ hs' = [hs EXCEPT !.calls = @ + 1,
                        !.op = "sleep",
                        !.wrote = FALSE,
                        !.since = IF @ = NoTime THEN NoTime
                                  ELSE Min(@ + d, AgeSat("last"))]
    /\ UNCHANGED << pc, ticked, g_fg_pulses, irq_en, irq_pend, g_slew,
                    pwm_level, dir_pin, mv, hd, bk, rs, ret, path, ramp, bm >>

NextTest ==
    \/ \E p \in TestPercents, r \in TestRates : TestSetTarget(p, r)
    \/ TestUpdate
    \/ \E d \in TestSteps : TestAdvance(d)

SpecTest == InitTest /\ [][NextTest]_vars


\* ================================================ blocking-ramp revision
\* src/Motor-Control/Motor-Control.cpp: the same winch with a blocking ramp
\* (ramp_to) in place of the slew-rate limiter.  hold_payload_ms keeps its arguments in hd and the
\* ages of its timestamps in age.t0 and age.nudge; brake_to_stop keeps its
\* argument and return position in bk.
RampStep == 1000
RampDelayMs == 10
NudgeRampStep == 10000
NudgeRampDelayMs == 8
ProgressMs == 300
SlowdownSpeed == 50000

InitBlk ==
    /\ pc = "x_idle"
    /\ ticked = FALSE
    /\ g_fg_pulses = 0
    /\ irq_en = TRUE
    /\ irq_pend = FALSE
    /\ g_slew = SlewReset
    /\ pwm_level = 0
    /\ dir_pin = 0
    /\ age = NoAges
    /\ mv = NoMove
    /\ hd = NoHold
    /\ bk = NoBrake
    /\ rs = "none"
    /\ ret = TRUE
    /\ path = "none"
    /\ hs = NoTest
    /\ ramp = NoRamp
    /\ bm = NoBlockingMove

\* the timestamps of the blocking move grow older by d ms
BlkAdvance(b, d) ==
    [b EXCEPT !.t0 = IF @ = NoTime THEN NoTime ELSE Min(@ + d, b.timeout_ms + 1),
              !.last_progress = IF @ = NoTime THEN NoTime ELSE Min(@ + d, ProgressMs + 1)]

BlkTick ==
    /\ ~ticked
    /\ ticked' = TRUE
    /\ bm' = BlkAdvance(bm, TickMs)
    /\ age' = Advance(age, TickMs)
    /\ UNCHANGED << pc, g_fg_pulses, irq_en, irq_pend, g_slew, pwm_level,
                    dir_pin, mv, hd, bk, rs, ret, path, hs, ramp >>

\* fg_irq_handler: the interrupt is never masked in this revision
BlkFgEdge ==
    /\ g_fg_pulses < MaxPulses
    /\ g_fg_pulses' = g_fg_pulses + 1
    /\ UNCHANGED << pc, ticked, irq_en, irq_pend, g_slew, pwm_level, dir_pin,
                    age, mv, hd, bk, rs, ret, path, hs, ramp, bm >>

\* ------------------------------------------------------------------ ramp_to
\* the call ramp_to(target_percent, step_delay_ms, step_percent), returning to `to`
RampCall(target_percent, step_delay_ms, step_percent, to) ==
    [ramp EXCEPT !.target = target_percent, !.delay = step_delay_ms,
                 !.step = step_percent, !.ret = to]

\* if (target_percent > current) for (float p = current; ...
RampBegin ==
    /\ Stmt("rp_begin", "rp_test")
    /\ ramp' = [ramp EXCEPT !.p = Percent(ramp.current)]
    /\ UNCHANGED << g_fg_pulses, irq_en, irq_pend, g_slew, pwm_level, dir_pin,
                    age, mv, hd, bk, rs, ret, path, hs, bm >>

\* the loop conditions: p <= target_percent going up, p >= target_percent
\* going down (the branch is chosen by target_percent > current)
RampTest ==
    /\ pc = "rp_test"
    /\ ticked' = ticked
    /\ pc' = IF (IF ramp.target > ramp.current
                 THEN F32Leq(ramp.p, Percent(ramp.target))
                 ELSE F32Leq(Percent(ramp.target), ramp.p))
             THEN "rp_body" ELSE "rp_end"
    /\ UNCHANGED << g_fg_pulses, irq_en, irq_pend, g_slew, pwm_level, dir_pin,
                    age, mv, hd, bk, rs, ret, path, hs, ramp, bm >>

\* set_speed(p);
RampBody ==
    /\ Stmt("rp_body", "rp_sleep")
    /\ pwm_level' = set_speed(ramp.p)
    /\ UNCHANGED << g_fg_pulses, irq_en, irq_pend, g_slew, dir_pin, age, mv,
                    hd, bk, rs, ret, path, hs, ramp, bm >>

\* sleep_ms(step_delay_ms);
RampSleep ==
    /\ Stmt("rp_sleep", "rp_step")
    /\ bm' = BlkAdvance(bm, ramp.delay)
    /\ age' = Advance(age, ramp.delay)
    /\ UNCHANGED << g_fg_pulses, irq_en, irq_pend, g_slew, pwm_level, dir_pin,
                    mv, hd, bk, rs, ret, path, hs, ramp >>

\* p += step_percent / p -= step_percent
RampStepP ==
    /\ Stmt("rp_step", "rp_test")
    /\ ramp' = [ramp EXCEPT !.p = IF ramp.target > ramp.current
                                  THEN F32Add(@, Percent(ramp.step))
                                  ELSE F32Add(@, F32Neg(Percent(ramp.step)))]
    /\ UNCHANGED << g_fg_pulses, irq_en, irq_pend, g_slew, pwm_level, dir_pin,
                    age, mv, hd, bk, rs, ret, path, hs, bm >>

\* current = target_percent; return
RampEnd ==
    /\ pc = "rp_end"
    /\ pc' = ramp.ret
    /\ ticked' = ticked
    /\ ramp' = [ramp EXCEPT !.current = ramp.target]
    /\ UNCHANGED << g_fg_pulses, irq_en, irq_pend, g_slew, pwm_level, dir_pin,
                    age, mv, hd, bk, rs, ret, path, hs, bm >>

\* ------------------------------------------------------------ brake_to_stop
\* ramp_to(0);
BlkBrake ==
    /\ Stmt("x_brake", "rp_begin")
    /\ ramp' = RampCall(0, RampDelayMs, RampStep, "x_settle")
    /\ UNCHANGED << g_fg_pulses, irq_en, irq_pend, g_slew, pwm_level, dir_pin,
                    age, mv, hd, bk, rs, ret, path, hs, bm >>

\* sleep_ms(settle_ms); return
BlkSettle ==
    /\ pc = "x_settle"
    /\ pc' = bk.ret
    /\ ticked' = ticked
    /\ bm' = BlkAdvance(bm, bk.settle_ms)
    /\ age' = Advance(age, bk.settle_ms)
    /\ bk' = NoBrake
    /\ UNCHANGED << g_fg_pulses, irq_en, irq_pend, g_slew, pwm_level, dir_pin,
                    mv, hd, rs, ret, path, hs, ramp >>

\* ------------------------------------------- move_meters, blocking revision
BlkMoveArgs(cw, meters, cruise_percent, timeout_ms) ==
    [NoBlockingMove EXCEPT !.cw = cw, !.meters = meters,
                           !.cruise_percent = cruise_percent,
                           !.timeout_ms = timeout_ms]

\* main's two calls through the public API of the revision (unwind is CCW,
\* wind is CW, both with the API's timeout), and direct calls of move_meters
BlkRequests ==
    { BlkMoveArgs(FALSE, 3000, 100000, ApiTimeoutMs),
      BlkMoveArgs(TRUE, 3000, 100000, ApiTimeoutMs),
      BlkMoveArgs(TRUE, 93, 40500, 400),
      BlkMoveArgs(FALSE, 93, 32012, 400),
      BlkMoveArgs(TRUE, 40, 100000, 100),
      BlkMoveArgs(FALSE, 40, 40000, 100),
      BlkMoveArgs(TRUE, 40, 0, 400),
      BlkMoveArgs(TRUE, 0, 40500, 400) }

BlkCallMove ==
    /\ Begin("x_idle")
    /\ pc' = "x_entry"
    /\ \E a \in BlkRequests : bm' = a
    /\ path' = "none"
    /\ UNCHANGED << g_fg_pulses, irq_en, irq_pend, g_slew, pwm_level, dir_pin,
                    age, mv, hd, bk, rs, ret, hs, ramp >>

\* uint32_t target = target_pulses_for_meters(meters); if (target == 0) return true;
BlkMoveEntry ==
    /\ pc = "x_entry"
    /\ ticked' = ticked
    /\ LET target == target_pulses_for_meters(bm.meters)
       IN  IF target = 0
           THEN /\ pc' = "x_idle"
                /\ ret' = TRUE
                /\ path' = "zero"
                /\ bm' = NoBlockingMove
           ELSE /\ pc' = "x_reset"
                /\ bm' = [bm EXCEPT !.target = target]
                /\ UNCHANGED << ret, path >>
    /\ UNCHANGED << g_fg_pulses, irq_en, irq_pend, g_slew, pwm_level, dir_pin,
                    age, mv, hd, bk, rs, hs, ramp >>

\* g_fg_pulses = 0;
BlkMoveReset ==
    /\ Stmt("x_reset", "x_dir")
    /\ g_fg_pulses' = 0
    /\ UNCHANGED << irq_en, irq_pend, g_slew, pwm_level, dir_pin, age, mv, hd,
                    bk, rs, ret, path, hs, ramp, bm >>

\* set_direction_cw(cw);
BlkMoveDir ==
    /\ Stmt("x_dir", "x_soft")
    /\ dir_pin' = IF bm.cw THEN 0 ELSE 1
    /\ UNCHANGED << g_fg_pulses, irq_en, irq_pend, g_slew, pwm_level, age, mv,
                    hd, bk, rs, ret, path, hs, ramp, bm >>

\* soft start: ramp_to(cruise_percent);
BlkMoveSoftStart ==
    /\ Stmt("x_soft", "rp_begin")
    /\ ramp' = RampCall(bm.cruise_percent, RampDelayMs, RampStep, "x_t0")
    /\ UNCHANGED << g_fg_pulses, irq_en, irq_pend, g_slew, pwm_level, dir_pin,
                    age, mv, hd, bk, rs, ret, path, hs, bm >>

\* uint32_t last_pulses = 0; absolute_time_t t0 = get_absolute_time();
BlkMoveT0 ==
    /\ Stmt("x_t0", "x_lp")
    /\ bm' = [bm EXCEPT !.last_pulses = 0, !.t0 = 0]
    /\ UNCHANGED << g_fg_pulses, irq_en, irq_pend, g_slew, pwm_level, dir_pin,
                    age, mv, hd, bk, rs, ret, path, hs, ramp >>

\* absolute_time_t last_progress = get_absolute_time(); bool slowdown_triggered = false;
BlkMoveLastProgress ==
    /\ Stmt("x_lp", "x_loop")
    /\ bm' = [bm EXCEPT !.last_progress = 0, !.slowdown_triggered = FALSE]
    /\ UNCHANGED << g_fg_pulses, irq_en, irq_pend, g_slew, pwm_level, dir_pin,
                    age, mv, hd, bk, rs, ret, path, hs, ramp >>

\* while (g_fg_pulses < target) ... ; brake_to_stop(); return true;
BlkMoveLoop ==
    /\ Begin("x_loop")
    /\ IF g_fg_pulses < bm.target
       THEN /\ pc' = "x_now"
            /\ UNCHANGED << bk, ret, path >>
       ELSE /\ pc' = "x_brake"
            /\ bk' = [settle_ms |-> BrakeSettleMs, ret |-> "x_ret"]
            /\ ret' = TRUE
            /\ path' = "target"
    /\ UNCHANGED << g_fg_pulses, irq_en, irq_pend, g_slew, pwm_level, dir_pin,
                    age, mv, hd, rs, hs, ramp, bm >>

\* uint32_t now = g_fg_pulses;
BlkMoveNow ==
    /\ Stmt("x_now", "x_progress")
    /\ bm' = [bm EXCEPT !.now = g_fg_pulses]
    /\ UNCHANGED << g_fg_pulses, irq_en, irq_pend, g_slew, pwm_level, dir_pin,
                    age, mv, hd, bk, rs, ret, path, hs, ramp >>

\* stall/progress check: no pulses for 300 ms
BlkMoveProgress ==
    /\ pc = "x_progress"
    /\ ticked' = ticked
    /\ IF bm.now # bm.last_pulses
       THEN /\ pc' = "x_timeout"
            /\ bm' = [bm EXCEPT !.last_pulses = bm.now, !.last_progress = 0]
            /\ UNCHANGED << bk, ret, path >>
       ELSE IF bm.last_progress * 1000 > ProgressMs * 1000
            THEN /\ pc' = "x_brake"
                 /\ bk' = [settle_ms |-> BrakeSettleMs, ret |-> "x_ret"]
                 /\ ret' = FALSE
                 /\ path' = "stall"
                 /\ bm' = bm
            ELSE /\ pc' = "x_timeout"
                 /\ UNCHANGED << bm, bk, ret, path >>
    /\ UNCHANGED << g_fg_pulses, irq_en, irq_pend, g_slew, pwm_level, dir_pin,
                    age, mv, hd, rs, hs, ramp >>

\* timeout safety
BlkMoveTimeout ==
    /\ pc = "x_timeout"
    /\ ticked' = ticked
    /\ IF bm.t0 > bm.timeout_ms
       THEN /\ pc' = "x_brake"
            /\ bk' = [settle_ms |-> BrakeSettleMs, ret |-> "x_ret"]
            /\ ret' = FALSE
            /\ path' = "timeout"
       ELSE /\ pc' = "x_slow"
            /\ UNCHANGED << bk, ret, path >>
    /\ UNCHANGED << g_fg_pulses, irq_en, irq_pend, g_slew, pwm_level, dir_pin,
                    age, mv, hd, rs, hs, ramp, bm >>

\* uint32_t remaining = target - now; remaining < target / 5.  When pulses
\* arrived between the loop test and the read of now, now > target and the
\* unsigned difference wraps to a value above every target / 5.
NearEnd(target, now) == now <= target /\ target - now < target \div 5

\* slowdown near the end (last 20 %)
BlkMoveSlowdown ==
    /\ pc = "x_slow"
    /\ ticked' = ticked
    /\ IF ~bm.slowdown_triggered /\ NearEnd(bm.target, bm.now)
       THEN /\ pc' = "rp_begin"
            /\ bm' = [bm EXCEPT !.slowdown_triggered = TRUE]
            /\ ramp' = RampCall(SlowdownSpeed, RampDelayMs, RampStep, "x_loop")
       ELSE /\ pc' = "x_loop"
            /\ UNCHANGED << bm, ramp >>
    /\ UNCHANGED << g_fg_pulses, irq_en, irq_pend, g_slew, pwm_level, dir_pin,
                    age, mv, hd, bk, rs, ret, path, hs >>

\* return of move_meters after brake_to_stop
BlkMoveReturn ==
    /\ Stmt("x_ret", "x_idle")
    /\ bm' = NoBlockingMove
    /\ UNCHANGED << g_fg_pulses, irq_en, irq_pend, g_slew, pwm_level, dir_pin,
                    age, mv, hd, bk, rs, ret, path, hs, ramp >>

\* ---------------------------------------- hold_payload_ms, blocking revision
BlkHoldRequests ==
    { HoldArgs(150, TRUE, 50000, 1, 2, 50),
      HoldArgs(100, FALSE, 25000, 0, 1, 0) }

\* hold_payload_ms(...): brake_to_stop(200);
BlkCallHold ==
    /\ Begin("x_idle")
    /\ pc' = "x_brake"
    /\ \E req \in BlkHoldRequests :
         hd' = [NoHold EXCEPT !.hold_ms = req.hold_ms, !.tow_up_cw = req.tow_up_cw,
                              !.nudge_speed_percent = req.nudge_speed_percent,
                              !.deadband_pulses = req.deadband_pulses,
                              !.nudge_pulses = req.nudge_pulses,
                              !.min_nudge_gap_ms = req.min_nudge_gap_ms]
    /\ bk' = [settle_ms |-> HoldSettleMs, ret |-> "y_zero"]
    /\ path' = "none"
    /\ UNCHANGED << g_fg_pulses, irq_en, irq_pend, g_slew, pwm_level, dir_pin,
                    age, mv, rs, ret, hs, ramp, bm >>

\* g_fg_pulses = 0; at the start of the hold, at the start of a nudge and
\* after a nudge
BlkHoldZero ==
    /\ pc \in { "y_zero", "y_nzero", "y_dzero" }
    /\ pc' = CASE pc = "y_zero" -> "y_t0"
               [] pc = "y_nzero" -> "y_dir"
               [] pc = "y_dzero" -> "y_stamp"
    /\ ticked' = ticked
    /\ g_fg_pulses' = 0
    /\ UNCHANGED << irq_en, irq_pend, g_slew, pwm_level, dir_pin, age, mv, hd,
                    bk, rs, ret, path, hs, ramp, bm >>

\* absolute_time_t t0 = get_absolute_time();
BlkHoldT0 ==
    /\ Stmt("y_t0", "y_last")
    /\ age' = [age EXCEPT !.t0 = 0]
    /\ UNCHANGED << g_fg_pulses, irq_en, irq_pend, g_slew, pwm_level, dir_pin,
                    mv, hd, bk, rs, ret, path, hs, ramp, bm >>

\* last_nudge = get_absolute_time(); before the loop and after a nudge
BlkHoldLastNudge ==
    /\ pc \in { "y_last", "y_stamp" }
    /\ pc' = IF pc = "y_last" THEN "y_loop" ELSE "y_sleep"
    /\ ticked' = ticked
    /\ age' = [age EXCEPT !.nudge = 0]
    /\ UNCHANGED << g_fg_pulses, irq_en, irq_pend, g_slew, pwm_level, dir_pin,
                    mv, hd, bk, rs, ret, path, hs, ramp, bm >>

\* while (elapsed since t0 < hold_ms) ... ; return true;
BlkHoldLoop ==
    /\ Begin("y_loop")
    /\ pc' = IF age.t0 * 1000 < hd.hold_ms * 1000 THEN "y_slip" ELSE "y_ret"
    /\ UNCHANGED << g_fg_pulses, irq_en, irq_pend, g_slew, pwm_level, dir_pin,
                    age, mv, hd, bk, rs, ret, path, hs, ramp, bm >>

\* if (g_fg_pulses > deadband_pulses)
BlkHoldSlipTest ==
    /\ pc = "y_slip"
    /\ ticked' = ticked
    /\ pc' = IF g_fg_pulses > hd.deadband_pulses THEN "y_gap" ELSE "y_sleep"
    /\ UNCHANGED << g_fg_pulses, irq_en, irq_pend, g_slew, pwm_level, dir_pin,
                    age, mv, hd, bk, rs, ret, path, hs, ramp, bm >>

\* rate-limit nudges
BlkHoldGapTest ==
    /\ pc = "y_gap"
    /\ ticked' = ticked
    /\ pc' = IF age.nudge * 1000 > hd.min_nudge_gap_ms * 1000 THEN "y_nzero" ELSE "y_sleep"
    /\ UNCHANGED << g_fg_pulses, irq_en, irq_pend, g_slew, pwm_level, dir_pin,
                    age, mv, hd, bk, rs, ret, path, hs, ramp, bm >>

\* set_direction_cw(tow_up_cw);
BlkNudgeDir ==
    /\ Stmt("y_dir", "y_ramp")
    /\ dir_pin' = IF hd.tow_up_cw THEN 0 ELSE 1
    /\ UNCHANGED << g_fg_pulses, irq_en, irq_pend, g_slew, pwm_level, age, mv,
                    hd, bk, rs, ret, path, hs, ramp, bm >>

\* ramp_to(nudge_speed_percent, 8, 10.0f);
BlkNudgeRamp ==
    /\ Stmt("y_ramp", "rp_begin")
    /\ ramp' = RampCall(hd.nudge_speed_percent, NudgeRampDelayMs, NudgeRampStep, "y_spin")
    /\ UNCHANGED << g_fg_pulses, irq_en, irq_pend, g_slew, pwm_level, dir_pin,
                    age, mv, hd, bk, rs, ret, path, hs, bm >>

\* while (g_fg_pulses < nudge_pulses) tight_loop_contents(); brake_to_stop(200);
BlkNudgeSpin ==
    /\ Begin("y_spin")
    /\ IF g_fg_pulses < hd.nudge_pulses
       THEN /\ pc' = "y_spin"
            /\ bk' = bk
       ELSE /\ pc' = "x_brake"
            /\ bk' = [settle_ms |-> HoldSettleMs, ret |-> "y_dzero"]
    /\ UNCHANGED << g_fg_pulses, irq_en, irq_pend, g_slew, pwm_level, dir_pin,
                    age, mv, hd, rs, ret, path, hs, ramp, bm >>

\* sleep_ms(10);
BlkHoldSleep ==
    /\ Stmt("y_sleep", "y_loop")
    /\ age' = Advance(age, HoldSleepMs)
    /\ UNCHANGED << g_fg_pulses, irq_en, irq_pend, g_slew, pwm_level, dir_pin,
                    mv, hd, bk, rs, ret, path, hs, ramp, bm >>

\* return true;
BlkHoldReturn ==
    /\ Stmt("y_ret", "x_idle")
    /\ ret' = TRUE
    /\ path' = "hold"
    /\ hd' = NoHold
    /\ age' = [age EXCEPT !.t0 = NoTime, !.nudge = NoTime]
    /\ UNCHANGED << g_fg_pulses, irq_en, irq_pend, g_slew, pwm_level, dir_pin,
                    mv, bk, rs, hs, ramp, bm >>

BlkRamp == RampBegin \/ RampTest \/ RampBody \/ RampSleep \/ RampStepP \/ RampEnd


BlkMove ==
    \/ BlkMoveEntry \/ BlkMoveReset \/ BlkMoveDir \/ BlkMoveSoftStart
    \/ BlkMoveT0 \/ BlkMoveLastProgress \/ BlkMoveLoop \/ BlkMoveNow
    \/ BlkMoveProgress \/ BlkMoveTimeout \/ BlkMoveSlowdown \/ BlkMoveReturn

BlkHold ==
    \/ BlkHoldZero \/ BlkHoldT0 \/ BlkHoldLastNudge \/ BlkHoldLoop
    \/ BlkHoldSlipTest \/ BlkHoldGapTest \/ BlkNudgeDir \/ BlkNudgeRamp
    \/ BlkNudgeSpin \/ BlkHoldSleep \/ BlkHoldReturn

NextBlk ==
    \/ BlkCallMove \/ BlkCallHold
    \/ BlkMove \/ BlkHold \/ BlkBrake \/ BlkSettle \/ BlkRamp
    \/ BlkTick \/ BlkFgEdge

SpecBlk == InitBlk /\ [][NextBlk]_vars

\* ========================================================== the properties
InMove ==
    \/ pc \in MovePcs
    \/ pc \in { "r_mask", "r_zero", "r_unmask" } /\ rs = "m_setup"
    \/ pc \in { "b_set", "b_t0", "b_test", "b_update" } /\ bk.ret = "m_ret"
    \/ pc = "m_ret"

Returned(p) == pc = "idle" /\ path = p

\* C1: when move_meters returns from a move whose pulse target is > 0, on any
\* of its return paths (target reached, stall abort, timeout abort), the
\* Speed Commander's current is 0 and the last level written to the PWM
\* output is 0.
C1_StoppedAtReturn ==
    (pc = "m_ret" \/ Returned("target") \/ Returned("stall") \/ Returned("timeout"))
        => (g_slew.current = F32Zero /\ g_slew.target = 0 /\ pwm_level = 0)

\* a stall abort of a move that was commanded to full speed has returned
C1_Witness ==
    /\ pc = "m_ret"
    /\ path = "stall"
    /\ mv.cruise_percent = 100000
    /\ mv.last_speed = 100000
    /\ g_slew.current = F32Zero

\* C2 (as claimed): a move that aborts on the stall check reports an outcome
\* different from the one reported on success and from the one reported on
\* a timeout, with the drive commanded to 0.
C2_StallReportedDistinct ==
    Returned("stall") => (ret # RetTarget /\ ret # RetTimeout /\ g_slew.target = 0)

\* C3 (as claimed): a move that aborts on the timeout check, the stall check
\* never having failed, reports an outcome different from the one reported
\* on a stall and from the one reported on success.
C3_TimeoutReportedDistinct ==
    Returned("timeout") => (ret # RetStall /\ ret # RetTarget)

\* C6: a move whose pulse target is 0 (every distance <= 0, and every
\* positive distance that rounds to 0 pulses) returns true at once and
\* leaves the direction output, the pulse counter, the interrupt mask, the
\* Speed Commander and the PWM level as they were.
C6_ZeroMoveNoEffect ==
    [][ (pc = "m_entry" /\ pc' # pc)
          => /\ mv.meters <= 0 => target_pulses_for_meters(mv.meters) = 0
             /\ target_pulses_for_meters(mv.meters) = 0
                  => /\ pc' = "idle"
                     /\ ret' = TRUE
                     /\ UNCHANGED << dir_pin, g_fg_pulses, irq_en, irq_pend,
                                     g_slew, pwm_level, age >> ]_vars

\* a zero-target move has returned while the counter held pulses of an
\* earlier operation and the direction output was high
C6_Witness ==
    /\ Returned("zero")
    /\ ret = TRUE
    /\ g_fg_pulses > 0
    /\ dir_pin = 1
    /\ g_slew.initialized

\* C4: every call of move_meters returns, whatever the feedback source does,
\* as long as the clock keeps advancing: the loop is left by reaching the
\* target, by the stall check or by the timeout check, and brake_to_stop's
\* settle loop ends.
C4_MoveReturns == (pc = "m_entry") ~> (pc = "idle")

\* a move has returned through the timeout check although pulses arrived
C4_Witness ==
    /\ Returned("timeout")
    /\ ret = RetTimeout
    /\ g_fg_pulses > 0

\* C5 (as claimed): every call of hold_payload_ms returns true, whatever the
\* feedback source does, as long as the clock keeps advancing; in particular
\* a hold that has started a nudge returns even if fewer than nudge_pulses
\* pulses arrive afterwards.
C5_HoldReturns == (pc = "h_entry") ~> (Returned("hold") /\ ret = TRUE)

\* C7: over any sequence of slew_set_target and slew_update calls, with
\* percent outside 0..100 and rate <= 0 among the arguments, current and
\* target stay within 0..100, the stored rate is positive, and each update
\* changes current (read to the thousandth of a percent) by at most
\* rate * dt (dt the time since last_t was stamped) and never moves it past
\* target.
C7_SlewInvariant ==
    [][ /\ F32Leq(F32Zero, g_slew'.current)
        /\ F32Leq(g_slew'.current, Percent(100000))
        /\ g_slew'.target \in 0 .. 100000
        /\ g_slew'.rate > 0
        /\ TestUpdate =>
              /\ Abs(MilliPercent(g_slew'.current) - MilliPercent(g_slew.current))
                    <= (IF age.last = NoTime THEN 0 ELSE g_slew.rate * age.last)
              /\ F32Leq(g_slew.current, Percent(g_slew.target))
                    => /\ F32Leq(g_slew.current, g_slew'.current)
                       /\ F32Leq(g_slew'.current, Percent(g_slew.target))
              /\ F32Leq(Percent(g_slew.target), g_slew.current)
                    => /\ F32Leq(Percent(g_slew.target), g_slew'.current)
                       /\ F32Leq(g_slew'.current, g_slew.current)
              /\ g_slew'.target = g_slew.target ]_vars

\* set_target(130, -5) was clamped to 100 at the substituted rate, and an
\* update one second later has moved current by rate * dt
C7_Witness ==
    /\ pc = "test"
    /\ hs.percent = 130000
    /\ hs.rate = 0 - 5
    /\ g_slew.target = 100000
    /\ g_slew.rate = MinRate
    /\ hs.c0 = F32Zero
    /\ g_slew.current = Percent(MinRate * 1000)
    /\ age.last = 0

\* C8 (as claimed): after set_target(T, R), an update made with elapsed
\* time t since the set_target leaves current equal to T once
\* R * t >= |T - initial_current|, and before that point every update (that
\* sees time pass) moves current strictly closer to T.
C8_Convergence ==
    [][ (TestUpdate /\ hs.since # NoTime /\ age.last > 0) =>
          IF g_slew.rate * hs.since >= Abs(g_slew.target - MilliPercent(hs.c0))
          THEN g_slew'.current = Percent(g_slew.target)
          ELSE Abs(g_slew.target - MilliPercent(g_slew'.current))
                 < Abs(g_slew.target - MilliPercent(g_slew.current)) ]_vars

\* C10 (as claimed): when the stall check aborts a move whose cruise speed
\* is >= 70 %, the last pulse the handler counted is no older than one
\* stall window (plus the polling latency of the model's clock, at most
\* four ticks).
C10_StallWithinOneWindow ==
    [][ ( /\ pc = "m_dp"
          /\ path' = "stall"
          /\ mv.cruise_percent >= 70000
          /\ age.pulse # NoTime )
        => age.pulse * 1000 <= mv.stall_window_us + 4 * TickMs * 1000 ]_vars

\* the gap test of the hold loop lets a nudge start
NudgeStart == pc = "h_gap" /\ pc' = "r_mask"

\* C11: during a hold, every nudge is triggered by deadband_pulses + 1
\* slip pulses of its own (so a burst of deadband_pulses + 1 pulses gives one
\* nudge, not two); the nudge resets the counter, sets the nudge direction,
\* commands nudge_speed_percent until nudge_pulses pulses are counted, then
\* brakes; and no further nudge starts within min_nudge_gap_ms of the
\* completion of the previous one, whatever pulses arrive.
C11_OneNudgePerBurst ==
    [][ /\ hd'.nudges * (hd'.deadband_pulses + 1) <= hd'.slip
        /\ NudgeStart
              => /\ g_fg_pulses > hd.deadband_pulses
                 /\ age.done = NoTime \/ age.done > hd.min_nudge_gap_ms
        /\ (pc = "n_set" /\ pc' # pc)
              => /\ dir_pin' = (IF hd.tow_up_cw THEN 0 ELSE 1)
                 /\ g_slew'.target = hd.nudge_speed_percent
        /\ (pc = "n_loop" /\ pc' # pc)
              => /\ g_slew.target = hd.nudge_speed_percent
                 /\ pc' = "b_set" <=> g_fg_pulses >= hd.nudge_pulses
        /\ (pc = "n_stamp" /\ pc' # pc)
              => (g_slew.target = 0 /\ g_slew.current = F32Zero) ]_vars

\* a second nudge is under way in one hold, after exactly two bursts of
\* deadband_pulses + 1 slip pulses
C11_Witness ==
    /\ pc = "n_loop"
    /\ hd.nudges = 2
    /\ hd.deadband_pulses = 1
    /\ hd.slip = 4

\* C12 (as claimed): the 0.6 m move has pulse target 321, and it does not
\* abort as stalled at the end of a stall window in which the feedback
\* source delivered at least the minimum of pulses for the commanded speed.
C12_FedMoveSucceeds ==
    [][ /\ (pc = "m_entry" /\ pc' # pc /\ mv.meters = 6000) => mv'.target = 321
        /\ (pc = "m_dp" /\ path' = "stall")
              => mv.win < min_pulses(g_slew.target) ]_vars

\* the move in progress is too short for its padding
Collapsed ==
    mv.target > 0 /\ 2 * target_pulses_for_meters(mv.padding_m) >= mv.target

\* C13 (as claimed): in a move too short for its padding, pad_pulses is
\* target / 2 and every speed commanded to the Speed Commander, at the start
\* and in every loop iteration, is padding_speed.
C13_ShortMoveAllPadding ==
    [][ /\ (pc = "m_entry" /\ pc' = "r_mask"
             /\ 2 * target_pulses_for_meters(mv.padding_m) >= mv'.target)
              => mv'.pad_pulses = mv'.target \div 2
        /\ (Collapsed /\ pc \in { "m_setup", "m_speed" } /\ pc' # pc)
              => (g_slew'.target = mv.padding_speed
                  /\ mv'.last_speed = mv.padding_speed) ]_vars

\* C14 (as claimed): in a move issued through unwind_payload_m or
\* wind_payload_m, every speed commanded to the Speed Commander while the
\* sample is in the padding-in or padding-out zone is at most the cruise
\* speed of the move.
C14_PaddingNotFaster ==
    [][ ( /\ pc' # pc
          /\ \/ pc = "m_setup" /\ mv.pad_pulses > 0
             \/ /\ pc = "m_speed"
                /\ \/ mv.now < mv.pad_pulses
                   \/ mv.target - mv.now < mv.pad_pulses )
        => g_slew'.target <= mv.cruise_percent ]_vars

\* C15 (as claimed): every call of slew_update writes the PWM level, and
\* the level written is that of current, also when current did not change
\* and when no time has passed since the previous update.
C15_UpdateAlwaysWrites ==
    [][ TestUpdate => (hs'.wrote /\ pwm_level' = set_speed(g_slew'.current)) ]_vars

\* C16: each time a stall window has elapsed, the move aborts as stalled
\* exactly when the pulses counted since the window's reference are fewer
\* than the minimum of the band of the commanded target (0 below 15 %, 1
\* from 15 %, 2 from 40 %, 3 from 70 %); so a move commanded below 15 %
\* never aborts as stalled.
C16_StallBands ==
    [][ (pc = "m_dp" /\ pc' # pc) =>
          LET dp == g_fg_pulses - mv.stall_ref_pulses
              cmd == g_slew.target
              band == CASE cmd < 15000 -> 0
                        [] cmd >= 15000 /\ cmd < 40000 -> 1
                        [] cmd >= 40000 /\ cmd < 70000 -> 2
                        [] cmd >= 70000 -> 3
          IN  /\ path' = "stall" <=> dp < band
              /\ path' = "stall" => cmd >= 15000
              /\ path' # "stall" => pc' = "m_new_p" ]_vars

\* a move commanded exactly 70 % has aborted as stalled on a window that
\* counted two pulses
C16_Witness ==
    /\ pc = "b_set"
    /\ path = "stall"
    /\ g_slew.target = 70000
    /\ g_fg_pulses - mv.stall_ref_pulses = 2

\* C17 (as claimed): in every iteration of the move loop the desired speed
\* is padding_speed when the sample is below pad_pulses or the remaining
\* pulses (target minus sample, at least 0) are below pad_pulses, and
\* cruise_percent otherwise; slew_set_target is called exactly in the
\* iterations where the desired speed differs from last_speed; and a move
\* makes at most 3 slew_set_target calls.
C17_AtMostThreeSetTargets ==
    [][ /\ (pc = "m_speed" /\ pc' # pc) =>
              LET remaining == IF mv.now < mv.target THEN mv.target - mv.now ELSE 0
                  desired == IF mv.now < mv.pad_pulses \/ remaining < mv.pad_pulses
                             THEN mv.padding_speed ELSE mv.cruise_percent
              IN  IF desired # mv.last_speed
                  THEN /\ mv'.sets = mv.sets + 1
                       /\ g_slew'.target = desired
                       /\ mv'.last_speed = desired
                  ELSE /\ mv'.sets = mv.sets
                       /\ g_slew' = g_slew
        /\ mv'.sets <= 3 ]_vars

\* C17 (amended): the speed selection is as claimed, and the start and the
\* speed selection of a move make at most 3 slew_set_target calls (the
\* start speed and two zone changes); brake_to_stop makes one more, the
\* stop command, when the move ends: at most 4 calls in all.
C17_SpeedSelection ==
    [][ /\ (pc = "m_speed" /\ pc' # pc) =>
              LET remaining == IF mv.now < mv.target THEN mv.target - mv.now ELSE 0
                  desired == IF mv.now < mv.pad_pulses \/ remaining < mv.pad_pulses
                             THEN mv.padding_speed ELSE mv.cruise_percent
              IN  IF desired # mv.last_speed
                  THEN /\ mv'.sets = mv.sets + 1
                       /\ g_slew'.target = desired
                       /\ mv'.last_speed = desired
                  ELSE /\ mv'.sets = mv.sets
                       /\ g_slew' = g_slew
        /\ (pc = "b_set" /\ pc' # pc /\ bk.ret = "m_ret") =>
              /\ mv'.sets = mv.sets + 1
              /\ g_slew'.target = 0
        /\ pc' \in MovePcs \cup { "b_set" } => mv'.sets <= 3
        /\ mv'.sets <= 4 ]_vars

\* a move through padding-in, cruise and padding-out has reached its target
\* after three speed commands and the stop command of its brake
C17_Witness ==
    /\ pc = "m_ret"
    /\ path = "target"
    /\ mv.target > 2 * mv.pad_pulses
    /\ mv.pad_pulses > 0
    /\ mv.sets = 4

\* C18 (as claimed): from the slew_set_target(T, R) at the start of a move
\* until the next speed command, current differs from its value at that
\* call by at most R times the time elapsed since the call (measured by
\* the move's t0, stamped right after it, with three clock ticks of
\* allowance for the statements in between).
C18_RampFromStart ==
    (pc \in MovePcs /\ age.t0 # NoTime /\ mv.sets = 1)
        => Abs(MilliPercent(g_slew.current) - MilliPercent(mv.c0))
              <= g_slew.rate * (age.t0 + 3 * TickMs)

\* C19 (as claimed): the deltas of consecutive stall windows add up to the
\* pulses counted: the reference count stored for the next window (line
\* 189) is the previous reference plus the delta just computed (line 175),
\* whatever the interleaving of the feedback interrupt.
C19_WindowsPartitionPulses ==
    [][ (pc = "m_new_p" /\ pc' # pc)
            => mv'.stall_ref_pulses = mv.stall_ref_pulses + mv.dp ]_vars

\* C20: nudges in a hold are spaced.  A nudge starts only when more than
\* min_nudge_gap_ms have passed since the hold loop began and since the
\* previous nudge completed (brake and counter reset); slip over the
\* deadband that the rate limit refused stays in the counter, and the
\* check that finds the gap elapsed since the last stamp starts the nudge.
C20_NudgeSpacing ==
    [][ /\ NudgeStart => /\ age.t0 > hd.min_nudge_gap_ms
                         /\ age.done # NoTime => age.done > hd.min_nudge_gap_ms
        /\ (hd'.deferred /\ pc' \in { "h_sleep", "h_loop", "h_update", "h_slip", "h_gap" })
              => g_fg_pulses' > hd'.deadband_pulses
        /\ (pc = "h_gap" /\ pc' # pc /\ age.nudge > hd.min_nudge_gap_ms)
              => (pc' = "r_mask" /\ rs' = "n_set") ]_vars

\* a second nudge starts after the rate limit had refused it
C20_Witness ==
    /\ pc = "n_set"
    /\ hd.nudges = 1
    /\ hd.deferred
    /\ age.done > hd.min_nudge_gap_ms

\* C21 (as claimed): in the blocking-ramp revision, when move_meters is
\* about to return after brake_to_stop, on any of its return paths, the
\* last level written to the PWM output is 0.
C21_BlockingStopsAtZero ==
    pc = "x_ret" => pwm_level = 0

====
